---- MODULE Spec2Model ----
(***************************************************************************)
(* peru-prices: the crawling pipeline.                                     *)
(*   src/src/crawler.rs                      Crawler::process_all,         *)
(*                                           process_one                   *)
(*   src/src/spiders/mod.rs                  Spider::scrape_all,           *)
(*                                           parse_price                   *)
(*   src/src/spiders/infinite_scrolling.rs   InfiniteScrollingSpider       *)
(*   src/src/spiders/multipage.rs            MultipageSpider               *)
(* Text is a sequence of one-character strings; Option<T> is a sequence of *)
(* length 0 (None) or 1 (Some).                                            *)
(***************************************************************************)
EXTENDS Integers, Sequences, FiniteSets, TLC

\* ------------------------------------------------------------------ bounds
\* The largest number of spiders a Crawler holds.
MaxSpiders == 2
\* The largest number of subroutes of a spider.
MaxSubroutes == 2
\* The largest configured scroll_checks.
MaxChecks == 2
\* The number of height readings after which the page is no longer watched.
MaxReads == 4
\* The largest length of the price text of a node looked at on its own.
MaxPriceLen == 4

\* ------------------------------------------------------------------ text
None == <<>>

Some(x) == <<x>>

IsSome(o) == Len(o) = 1

Digits == {"0", "1", "2", "3", "4", "5", "6", "7", "8", "9"}

DigitVal(c) ==
    CASE c = "0" -> 0 [] c = "1" -> 1 [] c = "2" -> 2 [] c = "3" -> 3
      [] c = "4" -> 4 [] c = "5" -> 5 [] c = "6" -> 6 [] c = "7" -> 7
      [] c = "8" -> 8 [] c = "9" -> 9

\* str::replace(from, ""): every non-overlapping match, left to right
RECURSIVE replace(_, _)
replace(x, from) ==
    IF Len(x) < Len(from) THEN x
    ELSE IF SubSeq(x, 1, Len(from)) = from
         THEN replace(SubSeq(x, Len(from) + 1, Len(x)), from)
         ELSE <<Head(x)>> \o replace(Tail(x), from)

RECURSIVE trim_start(_)
trim_start(x) ==
    IF x # <<>> /\ Head(x) = " " THEN trim_start(Tail(x)) ELSE x

RECURSIVE trim_end(_)
trim_end(x) ==
    IF x # <<>> /\ x[Len(x)] = " " THEN trim_end(SubSeq(x, 1, Len(x) - 1)) ELSE x

trim(x) == trim_end(trim_start(x))

RECURSIVE DigitsValue(_)
DigitsValue(x) ==
    IF x = <<>> THEN 0
    ELSE DigitsValue(SubSeq(x, 1, Len(x) - 1)) * 10 + DigitVal(x[Len(x)])

AllDigits(x) == \A k \in 1..Len(x) : x[k] \in Digits

\* str::parse::<f64>() on the decimal notations digits, digits.digits,
\* digits. and .digits; the value is kept in hundredths.
parse_f64(x) ==
    LET dots == {k \in 1..Len(x) : x[k] = "."}
        dot == IF dots = {} THEN Len(x) + 1 ELSE CHOOSE k \in dots : TRUE
        int == SubSeq(x, 1, dot - 1)
        frac == SubSeq(x, dot + 1, Len(x))
        cents == SubSeq(frac \o <<"0", "0">>, 1, 2)
    IN  IF /\ Cardinality(dots) <= 1
           /\ AllDigits(int) /\ AllDigits(frac)
           /\ Len(int) + Len(frac) > 0
        THEN [ok |-> TRUE, val |-> DigitsValue(int) * 100 + DigitsValue(cents)]
        ELSE [ok |-> FALSE, val |-> 0]

SolDot == <<"S", "/", ".">>

Sol == <<"S", "/">>

Comma == <<",">>

\* spiders::parse_price
parse_price(x) == parse_f64(trim(replace(replace(replace(x, SolDot), Sol), Comma)))

\* the price closure of InfiniteScrollingItem::try_from
parse_price_inline(x) == parse_f64(trim(replace(replace(x, SolDot), Comma)))

\* HashMap::remove / HashMap::get as an Option
Get(map, k) == IF k \in DOMAIN map THEN Some(map[k]) ELSE None

\* HashMap::insert
Insert(map, k, v) == [x \in DOMAIN map \cup {k} |-> IF x = k THEN v ELSE map[x]]

EmptyMap == [x \in {} |-> <<>>]

\* ------------------------------------------------------------------ items
Err(msg) == [ok |-> FALSE, err |-> msg]

\* mutant of InfiniteScrollingItem_try_from: a missing id becomes the empty id
InfiniteScrollingItem_try_from_default_id(map) ==
    LET id == IF "data-id" \in DOMAIN map THEN Get(map, "data-id") ELSE Some(<<>>)
        brand == Get(map, "data-brand")
        uri == Get(map, "data-uri")
        name == Get(map, "data-name")
        raw == Get(map, "data-price")
        parsed == IF IsSome(raw) THEN parse_price_inline(raw[1]) ELSE [ok |-> TRUE, val |-> 0]
        price == IF IsSome(raw) THEN Some(parsed.val) ELSE None
        category == Get(map, "data-category")
    IN  IF ~parsed.ok THEN Err("Failed to parse price")
        ELSE IF ~IsSome(brand) /\ ~IsSome(uri) /\ ~IsSome(name)
                /\ ~IsSome(price) /\ ~IsSome(category)
        THEN Err("NoDataExtracted")
        ELSE [ok |-> TRUE,
              item |-> [id |-> id[1], brand |-> brand, uri |-> uri, name |-> name,
                        price |-> price, category |-> category]]

\* TryFrom<HashMap<&str, &str>> for InfiniteScrollingItem
InfiniteScrollingItem_try_from(map) ==
    LET id == Get(map, "data-id")
        brand == Get(map, "data-brand")
        uri == Get(map, "data-uri")
        name == Get(map, "data-name")
        raw == Get(map, "data-price")
        parsed == IF IsSome(raw) THEN parse_price_inline(raw[1]) ELSE [ok |-> TRUE, val |-> 0]
        price == IF IsSome(raw) THEN Some(parsed.val) ELSE None
        category == Get(map, "data-category")
    IN  IF ~IsSome(id) THEN Err("Failed to obtain item id")
        ELSE IF ~parsed.ok THEN Err("Failed to parse price")
        ELSE IF ~IsSome(brand) /\ ~IsSome(uri) /\ ~IsSome(name)
                /\ ~IsSome(price) /\ ~IsSome(category)
        THEN Err("NoDataExtracted")
        ELSE [ok |-> TRUE,
              item |-> [id |-> id[1], brand |-> brand, uri |-> uri, name |-> name,
                        price |-> price, category |-> category]]

\* TryFrom<HashMap<String, String>> for MultipageItem
MultipageItem_try_from(map) ==
    LET sku == Get(map, "data-sku")
        name == Get(map, "title")
        brand == Get(map, ".Showcase__brand a")
        category == Get(map, "category")
        uri == Get(map, "href")
        raw == IF "data-price" \in DOMAIN map THEN Get(map, "data-price")
               ELSE Get(map, ".Showcase__salePrice")
        parsed == IF IsSome(raw) THEN parse_price(raw[1]) ELSE [ok |-> TRUE, val |-> 0]
        price == IF IsSome(raw) THEN Some(parsed.val) ELSE None
    IN  IF ~IsSome(sku) THEN Err("Failed to obtain item id")
        ELSE IF ~parsed.ok THEN Err("Failed to parse price")
        ELSE IF ~IsSome(name) /\ ~IsSome(brand) /\ ~IsSome(category)
                /\ ~IsSome(uri) /\ ~IsSome(price)
        THEN Err("NoDataExtracted")
        ELSE [ok |-> TRUE,
              item |-> [sku |-> sku[1], name |-> name, brand |-> brand,
                        category |-> category, uri |-> uri, price |-> price]]

\* the extractors MultipageSpider::scrape hands to add_to_map:
\* (class, extract_all_text, values_to_extract)
Extractors ==
    << [class |-> ".Showcase__content", all |-> FALSE, values |-> <<"title">>],
       [class |-> ".Showcase__brand a", all |-> FALSE, values |-> <<>>],
       [class |-> ".Showcase__priceBox__title", all |-> TRUE, values |-> <<>>],
       [class |-> ".Showcase__link", all |-> FALSE, values |-> <<"href">>],
       [class |-> ".Showcase__salePrice", all |-> FALSE, values |-> <<"data-price">> ] >>

\* the inner loop of add_to_map: the child's attributes named by an extractor
RECURSIVE add_values(_, _, _)
add_values(map, child_map, values) ==
    IF values = <<>> THEN map
    ELSE add_values(IF Head(values) \in DOMAIN child_map
                    THEN Insert(map, Head(values), child_map[Head(values)])
                    ELSE map,
                    child_map, Tail(values))

\* multipage::add_to_map; element.kids[class] is the first child matching class
RECURSIVE add_to_map(_, _, _)
add_to_map(map, element, extractors) ==
    IF extractors = <<>> THEN map
    ELSE LET e == Head(extractors)
         IN  IF e.class \in DOMAIN element.kids
             THEN LET child == element.kids[e.class]
                      text == trim(IF e.all THEN child.all_text ELSE child.first_text)
                  IN  add_to_map(add_values(Insert(map, e.class, text), child.attrs, e.values),
                                 element, Tail(extractors))
             ELSE add_to_map(map, element, Tail(extractors))

\* the identity key: InfiniteScrollingItem::eq/hash read id, MultipageItem's sku
Key(item) == IF "id" \in DOMAIN item THEN item.id ELSE item.sku

\* mutant of ItemEq: the derived PartialEq, which compares every field
ItemEqDerived(a, b) == a = b

\* PartialEq for the items
ItemEq(a, b) == Key(a) = Key(b)

\* collect::<HashSet<_>>() of a Vec: an item equal to one already held is dropped
RECURSIVE HashSetOf(_)
HashSetOf(items) ==
    IF items = <<>> THEN {}
    ELSE LET held == HashSetOf(SubSeq(items, 1, Len(items) - 1))
             x == items[Len(items)]
         IN  IF \E y \in held : ItemEq(x, y) THEN held ELSE held \cup {x}

\* HashSet::into_iter().collect::<Vec<_>>(): the elements in any order
Vecs(set) ==
    {v \in [1..Cardinality(set) -> set] : \A x \in set : \E k \in DOMAIN v : v[k] = x}

\* mutant of Flatten: only the Vec collected first is kept
FlattenFirst(vecs) == IF vecs = <<>> THEN <<>> ELSE Head(vecs)

RECURSIVE Flatten(_)
Flatten(vecs) == IF vecs = <<>> THEN <<>> ELSE Head(vecs) \o Flatten(Tail(vecs))

\* mutant of FilterOk: one failed element empties the whole sequence
FilterOkAbort(results) ==
    IF \E k \in 1..Len(results) : ~results[k].ok THEN <<>>
    ELSE [k \in 1..Len(results) |-> results[k].item]

\* Option-dropping map over a sequence (Iterator::filter_map)
RECURSIVE FilterOk(_)
FilterOk(results) ==
    IF results = <<>> THEN <<>>
    ELSE (IF Head(results).ok THEN <<Head(results).item>> ELSE <<>>) \o FilterOk(Tail(results))

InfiniteScrolling == "InfiniteScrolling"

Multipage == "Multipage"

\* MetroSpider: an InfiniteScrollingSpider whose client is not behind a Mutex
Metro == "Metro"

\* the closure of filter_map in the scrape of each spider: element -> try_from
Extract(kind, url, element) ==
    IF kind # Multipage
    THEN InfiniteScrollingItem_try_from(element.attrs)
    ELSE MultipageItem_try_from(
             add_to_map(Insert(element.attrs, "category", url), element, Extractors))

\* html.select(&self.selector).filter_map(..): the per-element results in order
ExtractAll(kind, url, document) ==
    [k \in 1..Len(document) |-> Extract(kind, url, document[k])]

\* ------------------------------------------------------------------ pages
TextA == <<"a">>

TextB == <<"b">>

TextC == <<"c">>

PriceSolDot == <<"S", "/", ".", " ", "1", ",", "2", "0", "0", ".", "5">>

PriceSol == <<"S", "/", " ", "2">>

PriceBad == <<"a", "b", "c">>

Element(attrs, kids) == [attrs |-> attrs, kids |-> kids]

Child(first_text, all_text, attrs) ==
    [first_text |-> first_text, all_text |-> all_text, attrs |-> attrs]

\* elements of the pages of an InfiniteScrollingSpider
ElemA1 ==
    Element(("data-id" :> TextA) @@ ("data-name" :> <<"x">>) @@ ("data-price" :> PriceSolDot),
            EmptyMap)

ElemA2 == Element(("data-id" :> TextA) @@ ("data-brand" :> <<"y">>), EmptyMap)

ElemB == Element(("data-id" :> TextB) @@ ("data-uri" :> <<"/", "b">>), EmptyMap)

ElemIdOnly == Element("data-id" :> TextC, EmptyMap)

ElemNoId == Element("data-name" :> <<"x">>, EmptyMap)

ElemBadPrice == Element(("data-id" :> TextC) @@ ("data-price" :> PriceBad), EmptyMap)

\* elements of the pages of a MultipageSpider
ShowA1 ==
    Element("data-sku" :> TextA,
            (".Showcase__content" :> Child(<<"x">>, <<"x">>, "title" :> <<"t">>))
            @@ (".Showcase__salePrice" :> Child(PriceSol, PriceSol, "data-price" :> <<"2">>)))

ShowA2 == Element("data-sku" :> TextA, EmptyMap)

ShowB ==
    Element("data-sku" :> TextB,
            ".Showcase__salePrice" :> Child(<<" ">> \o PriceSol, PriceSol, EmptyMap))

ShowNoSku ==
    Element(EmptyMap, ".Showcase__link" :> Child(<<>>, <<>>, "href" :> <<"/", "c">>))

ShowBadPrice ==
    Element("data-sku" :> TextC,
            ".Showcase__salePrice" :> Child(<<>>, <<>>, "data-price" :> PriceBad))

\* the markup client.source() can return, as the elements the selector matches
Documents(kind) ==
    IF kind # Multipage
    THEN { <<ElemA1, ElemA2, ElemBadPrice>>, <<ElemA2, ElemB>>, <<ElemIdOnly, ElemNoId>> }
    ELSE { <<ShowA1, ShowA2, ShowBadPrice>>, <<ShowB, ShowA2>>, <<ShowNoSku>> }

\* markups whose elements carry no price
PlainDocuments(kind) ==
    IF kind # Multipage
    THEN { <<ElemA2, ElemB>>, <<ElemIdOnly, ElemNoId>> }
    ELSE { <<ShowA2, ShowNoSku>> }

\* document.body.scrollHeight
Heights == {100, 150}

\* --------------------------------------------------------------- one node
\* the characters a price text is made of
PriceChars == {"S", "/", ".", ",", " ", "1"}

\* the texts of at most n characters
Texts(n) == UNION {[1..k -> PriceChars] : k \in 0..n}

\* a node of the markup, by what it carries: its identity key, its name, its
\* price text (each an Option) and where the price text is written: in an
\* attribute ("attr"), in the text of the price child ("text"), or "none"
Nodes(kind) ==
    {n \in [id : {None, Some(TextA)}, name : {None, Some(<<"x">>)},
            price : {None} \cup {Some(p) : p \in Texts(MaxPriceLen)},
            price_at : {"none", "attr", "text"}] :
        /\ n.price_at = "none" <=> n.price = None
        /\ kind = InfiniteScrolling => n.price_at # "text"}

\* no node is looked at on its own
NoNode == [id |-> None, name |-> None, price |-> None, price_at |-> "none"]

\* the map with key k when the Option o is Some
Entry(k, o) == IF IsSome(o) THEN k :> o[1] ELSE EmptyMap

\* the attribute map of node n as its extractor reads it
RawMap(kind, n) ==
    IF kind = InfiniteScrolling
    THEN Entry("data-id", n.id) @@ Entry("data-name", n.name) @@ Entry("data-price", n.price)
    ELSE Entry("data-sku", n.id) @@ Entry("title", n.name)
         @@ Entry(IF n.price_at = "attr" THEN "data-price" ELSE ".Showcase__salePrice", n.price)

\* node n as the element the selector of the spider matches
NodeElement(kind, n) ==
    IF kind = InfiniteScrolling
    THEN Element(RawMap(kind, n), EmptyMap)
    ELSE Element(Entry("data-sku", n.id),
                 (IF IsSome(n.name)
                  THEN ".Showcase__content" :> Child(<<>>, <<>>, "title" :> n.name[1])
                  ELSE EmptyMap)
                 @@ (IF n.price_at = "attr"
                     THEN ".Showcase__salePrice" :> Child(<<>>, <<>>, "data-price" :> n.price[1])
                     ELSE IF n.price_at = "text"
                     THEN ".Showcase__salePrice" :> Child(n.price[1], n.price[1], EmptyMap)
                     ELSE EmptyMap))

\* the element that follows the node in its page
Sibling(kind) == IF kind = InfiniteScrolling THEN ElemB ELSE ShowB

\* the URL of the page the node is in
NodeUrl == <<"s", "1", "/", "r", "1">>

\* ------------------------------------------------------------------ state
VARIABLES
    \* main
    mpc,                    \* "connect", "crawl", "failed"
    session,                \* per spider: "none", "open" or "failed"
    \* one scraped node on its own
    node,                   \* the element the selector matched
    raw,                    \* Option of the Result of try_from on its attributes
    scraped,                \* Option of the Result the closure of scrape gives it
    page,                   \* Option of the items of a page holding it
    \* configuration (configuration.rs: Settings) and the Crawler
    kind,                   \* the type T of Crawler<T>
    spiders,                \* Crawler.spiders, as their number
    subroutes,              \* per spider: the number of its subroutes
    crawlers_buffer_size,
    spiders_buffer_size,
    scroll_checks,
    site,                   \* the markups the site serves: what client.source() can return
    growth,                 \* Option of the number of times a page changes its height
                            \* before it is still; None: it may change for ever
    out_path,               \* "missing", "dir" or "file"
    \* Crawler::process_all
    cpc,                    \* "check", "run", "done"
    counts,                 \* the Ok(n) the filter_map has let through
    result,                 \* Option of the Result process_all returns
    \* process_one, per spider
    ppc,                    \* "queued", "create", "scrape_all", "write", "done"
    files,                  \* the spiders whose output file exists
    presult,                \* Option of the Result process_one returns
    \* Spider::scrape_all, per spider
    collected,              \* the Vec<Vec<Item>> the stream has collected
    items,                  \* Option of the Vec scrape_all returns
    lock,                   \* the task holding client: Mutex<Client>, as an Option
    waiters,                \* the tasks queued on the Mutex, first come first
    browser,                \* the URL the webdriver client shows, as an Option
    \* one subroute future of scrape_all, per task <<spider, index>>
    tpc,
    slept,                  \* whether the pacing delay was served
    height,                 \* scroll_to_end: height
    i,                      \* scroll_to_end: i
    readings,               \* the heights get_height has returned, oldest first
    scrolls,                \* the number of scroll_down commands sent
    events,                 \* the session commands and extractions that failed
    document,               \* Option of the markup read: [url, elements]
    tresult                 \* Option of the Result scrape returns

mainVars == <<mpc, session>>

nodeVars == <<node, raw, scraped, page>>

confVars ==
    <<kind, spiders, subroutes, crawlers_buffer_size, spiders_buffer_size, scroll_checks,
      site, growth>>

crawlerVars == <<out_path, cpc, counts, result>>

processVars == <<ppc, files, presult>>

spiderVars == <<collected, items, lock, waiters, browser>>

pollerVars == <<height, i, readings, scrolls>>

taskVars == <<tpc, slept, events, document, tresult>>

vars == <<mainVars, nodeVars, confVars, crawlerVars, processVars, spiderVars, pollerVars, taskVars>>

SpiderIds == 1..MaxSpiders

Tasks == SpiderIds \X (0..MaxSubroutes - 1)

\* the subroute futures of spider s
TasksOf(s) == {t \in Tasks : t[1] = s /\ t[2] < subroutes[s]}

DigitChar == <<"0", "1", "2", "3", "4", "5", "6", "7", "8", "9">>

\* format!("{}/{}", self.base_url(), subroute)
Url(t) == <<"s", DigitChar[t[1] + 1], "/", "r", DigitChar[t[2] + 1]>>

\* the futures buffer_unordered holds for spider s
InFlight(s) == {t \in TasksOf(s) : tpc[t] \notin {"unstarted", "done"}}

\* the process_one futures buffer_unordered holds
Processing == {s \in 1..spiders : ppc[s] \notin {"queued", "done"}}

RECURSIVE Sum(_)
Sum(ns) == IF ns = <<>> THEN 0 ELSE Head(ns) + Sum(Tail(ns))

Ok(n) == [ok |-> TRUE, n |-> n]

OkItems(v) == [ok |-> TRUE, items |-> v]

Max(ns) == CHOOSE n \in ns : \A m \in ns : m <= n

InitWith(spiderCounts, subrouteCounts, kinds, checks) ==
    /\ kind \in kinds
    /\ spiders \in spiderCounts
    /\ mpc = IF spiders = 0 THEN "crawl" ELSE "connect"
    /\ session = [s \in SpiderIds |-> "none"]
    /\ raw = None
    /\ scraped = None
    /\ page = None
    /\ subroutes \in [SpiderIds -> subrouteCounts \cup {0}]
    /\ \A s \in SpiderIds : s > spiders => subroutes[s] = 0
    /\ crawlers_buffer_size \in 1..Max({1, spiders})
    /\ spiders_buffer_size \in 1..Max(subrouteCounts \cup {1})
    /\ scroll_checks \in checks
    /\ kind = Multipage => scroll_checks = 0
    /\ out_path \in {"missing", "dir", "file"}
    /\ cpc = "check"
    /\ counts = <<>>
    /\ result = None
    /\ ppc = [s \in SpiderIds |-> "queued"]
    /\ files = {}
    /\ presult = [s \in SpiderIds |-> None]
    /\ collected = [s \in SpiderIds |-> <<>>]
    /\ items = [s \in SpiderIds |-> None]
    /\ lock = [s \in SpiderIds |-> None]
    /\ waiters = [s \in SpiderIds |-> <<>>]
    /\ browser = [s \in SpiderIds |-> None]
    /\ tpc = [t \in Tasks |-> "unstarted"]
    /\ slept = [t \in Tasks |-> FALSE]
    /\ height = [t \in Tasks |-> 0]
    /\ i = [t \in Tasks |-> 0]
    /\ readings = [t \in Tasks |-> <<>>]
    /\ scrolls = [t \in Tasks |-> 0]
    /\ events = [t \in Tasks |-> {}]
    /\ document = [t \in Tasks |-> None]
    /\ tresult = [t \in Tasks |-> None]

\* one spider with up to MaxSubroutes subroutes, scroll_checks 0 or 1
Init ==
    /\ InitWith({1}, 0..MaxSubroutes, {InfiniteScrolling, Multipage}, {0, 1})
    /\ site = Documents(kind)
    /\ growth = None
    /\ node = NoNode

\* one spider with one subroute: a single scrape, and its poller
InitScrape ==
    /\ InitWith({1}, {1}, {InfiniteScrolling, Multipage}, 0..MaxChecks)
    /\ site = Documents(kind)
    /\ growth = None
    /\ node = NoNode

\* up to MaxSpiders spiders of at most one subroute each, scroll_checks = 0
InitCrawler ==
    /\ InitWith(0..MaxSpiders, {0, 1}, {InfiniteScrolling, Multipage}, {0})
    /\ site = Documents(kind)
    /\ growth = None
    /\ node = NoNode

\* ------------------------------------------------------------------ main
\* main: the spiders are built one after the other, each with `?`:
\* InfiniteScrollingSpider::new / MultipageSpider::new connect to the webdriver,
\* and the first connection that fails makes main return the error
Connect(s) ==
    /\ mpc = "connect"
    /\ s \in 1..spiders
    /\ session[s] = "none"
    /\ \A r \in 1..(s - 1) : session[r] = "open"
    /\ \E connected \in BOOLEAN :
        IF connected
        THEN /\ session' = [session EXCEPT ![s] = "open"]
             /\ mpc' = IF s = spiders THEN "crawl" ELSE "connect"
        ELSE /\ session' = [session EXCEPT ![s] = "failed"]
             /\ mpc' = "failed"
    /\ UNCHANGED <<nodeVars, confVars, crawlerVars, processVars, spiderVars, pollerVars, taskVars>>

\* ------------------------------------------------------------------ Crawler
\* mutant of CheckOutPath: is_dir is not consulted
CheckOutPathExistsOnly ==
    /\ mpc = "crawl"
    /\ cpc = "check"
    /\ IF out_path = "missing"
       THEN \E created \in BOOLEAN :
                IF created
                THEN out_path' = "dir" /\ cpc' = "run" /\ result' = result
                ELSE /\ out_path' = out_path
                     /\ cpc' = "done"
                     /\ result' = Some(Err("Failed to create dir for out_path"))
       ELSE out_path' = out_path /\ cpc' = "run" /\ result' = result
    /\ UNCHANGED <<counts, mainVars, nodeVars, confVars, processVars, spiderVars, pollerVars, taskVars>>

\* mutant of CheckOutPath: a directory that cannot be created is passed over
CheckOutPathCreateIgnored ==
    /\ mpc = "crawl"
    /\ cpc = "check"
    /\ IF out_path = "missing"
       THEN \E created \in BOOLEAN :
                /\ out_path' = (IF created THEN "dir" ELSE out_path)
                /\ cpc' = "run"
                /\ result' = result
       ELSE IF out_path # "dir"
       THEN /\ out_path' = out_path
            /\ cpc' = "done"
            /\ result' = Some(Err("OutPathNoDir"))
       ELSE out_path' = out_path /\ cpc' = "run" /\ result' = result
    /\ UNCHANGED <<counts, mainVars, nodeVars, confVars, processVars, spiderVars, pollerVars, taskVars>>

\* process_all: the out_path checks before the stream is built
CheckOutPath ==
    /\ mpc = "crawl"
    /\ cpc = "check"
    /\ IF out_path = "missing"
       THEN \E created \in BOOLEAN :
                IF created
                THEN out_path' = "dir" /\ cpc' = "run" /\ result' = result
                ELSE /\ out_path' = out_path
                     /\ cpc' = "done"
                     /\ result' = Some(Err("Failed to create dir for out_path"))
       ELSE IF out_path # "dir"
       THEN /\ out_path' = out_path
            /\ cpc' = "done"
            /\ result' = Some(Err("OutPathNoDir"))
       ELSE out_path' = out_path /\ cpc' = "run" /\ result' = result
    /\ UNCHANGED <<counts, mainVars, nodeVars, confVars, processVars, spiderVars, pollerVars, taskVars>>

\* mutant of HasSlot: one future more than n is held
HasSlotOffByOne(held, n) == held <= n

\* buffer_unordered(n): a future is taken from the stream while fewer than n are held
HasSlot(held, n) == held < n

\* mutant of StartSpider: every process_one future is polled at once
StartSpiderUnbounded(s) ==
    /\ cpc = "run"
    /\ s \in 1..spiders
    /\ ppc[s] = "queued"
    /\ ppc' = [ppc EXCEPT ![s] = "create"]
    /\ UNCHANGED <<files, presult, mainVars, nodeVars, confVars, crawlerVars, spiderVars, pollerVars, taskVars>>

\* process_all: buffer_unordered takes the next process_one future
StartSpider(s) ==
    /\ cpc = "run"
    /\ s \in 1..spiders
    /\ ppc[s] = "queued"
    /\ \A r \in 1..(s - 1) : ppc[r] # "queued"
    /\ HasSlot(Cardinality(Processing), crawlers_buffer_size)
    /\ ppc' = [ppc EXCEPT ![s] = "create"]
    /\ UNCHANGED <<files, presult, mainVars, nodeVars, confVars, crawlerVars, spiderVars, pollerVars, taskVars>>

\* mutant of CountOk: a failed spider discards the counts collected so far
CountOkAbort(ns, res) == IF res.ok THEN Append(ns, res.n) ELSE <<>>

\* process_all: the filter_map over the results of process_one
CountOk(ns, res) == IF res.ok THEN Append(ns, res.n) ELSE ns

\* mutant of CreateFile: the failure of File::create is not propagated
CreateFileIgnored(s) ==
    /\ ppc[s] = "create"
    /\ \E created \in BOOLEAN :
        /\ files' = IF created THEN files \cup {s} ELSE files
        /\ ppc' = [ppc EXCEPT ![s] = "scrape_all"]
        /\ UNCHANGED <<presult, counts>>
    /\ UNCHANGED <<out_path, cpc, result, mainVars, nodeVars, confVars, spiderVars, pollerVars, taskVars>>

\* process_one: File::create
CreateFile(s) ==
    /\ ppc[s] = "create"
    /\ \E created \in BOOLEAN :
        IF created
        THEN /\ files' = files \cup {s}
             /\ ppc' = [ppc EXCEPT ![s] = "scrape_all"]
             /\ UNCHANGED <<presult, counts>>
        ELSE /\ ppc' = [ppc EXCEPT ![s] = "done"]
             /\ presult' = [presult EXCEPT ![s] = Some(Err("Failed to create file"))]
             /\ counts' = CountOk(counts, Err("Failed to create file"))
             /\ files' = files
    /\ UNCHANGED <<out_path, cpc, result, mainVars, nodeVars, confVars, spiderVars, pollerVars, taskVars>>

\* process_one: items.len(), then the blocking task that writes the csv; the
\* closure can only panic in wtr.serialize(item).unwrap(), once per item
WriteItems(s) ==
    /\ ppc[s] = "write"
    /\ \E joined \in (IF Len(items[s][1]) = 0 THEN {TRUE} ELSE BOOLEAN) :
        LET res == IF joined THEN Ok(Len(items[s][1])) ELSE Err("Failed to join task")
        IN  /\ presult' = [presult EXCEPT ![s] = Some(res)]
            /\ counts' = CountOk(counts, res)
    /\ ppc' = [ppc EXCEPT ![s] = "done"]
    /\ UNCHANGED <<files, out_path, cpc, result, mainVars, nodeVars, confVars, spiderVars, pollerVars, taskVars>>

\* process_all: the stream is exhausted: .iter().sum() and Ok(n)
FinishProcessAll ==
    /\ cpc = "run"
    /\ \A s \in 1..spiders : ppc[s] = "done"
    /\ cpc' = "done"
    /\ result' = Some(Ok(Sum(counts)))
    /\ UNCHANGED <<out_path, counts, mainVars, nodeVars, confVars, processVars, spiderVars, pollerVars, taskVars>>

\* ------------------------------------------------------------------ Spider
\* mutant of SpawnSubroute: the future takes the client, when free, before its delay
SpawnSubrouteLocking(t) ==
    /\ ppc[t[1]] = "scrape_all"
    /\ t \in TasksOf(t[1])
    /\ tpc[t] = "unstarted"
    /\ \A r \in TasksOf(t[1]) : r[2] < t[2] => tpc[r] # "unstarted"
    /\ HasSlot(Cardinality(InFlight(t[1])), spiders_buffer_size)
    /\ tpc' = [tpc EXCEPT ![t] = "start"]
    /\ lock' = [lock EXCEPT ![t[1]] = IF @ = None THEN Some(t) ELSE @]
    /\ UNCHANGED <<slept, events, document, tresult, collected, items, waiters, browser,
                   mainVars, nodeVars, confVars, crawlerVars, processVars, pollerVars>>

\* scrape_all: buffer_unordered takes the next subroute future
SpawnSubroute(t) ==
    /\ ppc[t[1]] = "scrape_all"
    /\ t \in TasksOf(t[1])
    /\ tpc[t] = "unstarted"
    /\ \A r \in TasksOf(t[1]) : r[2] < t[2] => tpc[r] # "unstarted"
    /\ HasSlot(Cardinality(InFlight(t[1])), spiders_buffer_size)
    /\ tpc' = [tpc EXCEPT ![t] = "start"]
    /\ UNCHANGED <<slept, events, document, tresult,
                   mainVars, nodeVars, confVars, crawlerVars, processVars, spiderVars, pollerVars>>

\* mutant of Pace: the delay is served before every subroute, the first too
PaceEvery(t) ==
    /\ tpc[t] = "start"
    /\ slept' = [slept EXCEPT ![t] = TRUE]
    /\ tpc' = [tpc EXCEPT ![t] = "scrape"]
    /\ UNCHANGED <<events, document, tresult,
                   mainVars, nodeVars, confVars, crawlerVars, processVars, spiderVars, pollerVars>>

\* scrape_all: if i > 0 { sleep(self.delay()).await }, up to the call of scrape
Pace(t) ==
    /\ tpc[t] = "start"
    /\ slept' = [slept EXCEPT ![t] = t[2] > 0]
    /\ tpc' = [tpc EXCEPT ![t] = "scrape"]
    /\ UNCHANGED <<events, document, tresult,
                   mainVars, nodeVars, confVars, crawlerVars, processVars, spiderVars, pollerVars>>

\* mutant of Lock: the client is taken without waiting for its holder
LockUnguarded(t) ==
    /\ tpc[t] = "scrape"
    /\ lock' = [lock EXCEPT ![t[1]] = Some(t)]
    /\ tpc' = [tpc EXCEPT ![t] = "goto"]
    /\ UNCHANGED <<waiters, collected, items, browser, slept, events, document, tresult,
                   mainVars, nodeVars, confVars, crawlerVars, processVars, pollerVars>>

\* scrape: self.client.lock().await (tokio's Mutex serves its waiters in order);
\* MetroSpider::scrape calls self.client.goto at once
Lock(t) ==
    /\ tpc[t] = "scrape"
    /\ IF kind = Metro
       THEN /\ tpc' = [tpc EXCEPT ![t] = "goto"]
            /\ UNCHANGED <<lock, waiters>>
       ELSE IF lock[t[1]] = None
       THEN /\ lock' = [lock EXCEPT ![t[1]] = Some(t)]
            /\ tpc' = [tpc EXCEPT ![t] = "goto"]
            /\ waiters' = waiters
       ELSE /\ waiters' = [waiters EXCEPT ![t[1]] = Append(@, t)]
            /\ tpc' = [tpc EXCEPT ![t] = "lock_wait"]
            /\ lock' = lock
    /\ UNCHANGED <<collected, items, browser, slept, events, document, tresult,
                   mainVars, nodeVars, confVars, crawlerVars, processVars, pollerVars>>

\* the MutexGuard is dropped: the first waiter, if any, is given the lock
Unlock(s) ==
    /\ lock' = [lock EXCEPT ![s] = IF waiters[s] = <<>> THEN None ELSE Some(Head(waiters[s]))]
    /\ waiters' = [waiters EXCEPT ![s] = IF @ = <<>> THEN @ ELSE Tail(@)]

\* tpc once task t has moved to pc and has dropped the guard of spider s
Handoff(s, t, pc) ==
    [r \in Tasks |-> IF r = t THEN pc
                     ELSE IF waiters[s] # <<>> /\ r = Head(waiters[s]) THEN "goto"
                     ELSE tpc[r]]

\* mutant of FilterMap: a failed subroute discards what was collected
FilterMapAbort(vecs, res) == IF res.ok THEN Append(vecs, res.items) ELSE <<>>

\* scrape_all: the filter_map over the results of scrape
FilterMap(vecs, res) == IF res.ok THEN Append(vecs, res.items) ELSE vecs

\* the locals of scroll_to_end go out of scope
DropLocals(t) ==
    /\ height' = [height EXCEPT ![t] = 0]
    /\ i' = [i EXCEPT ![t] = 0]
    /\ readings' = [readings EXCEPT ![t] = <<>>]
    /\ scrolls' = [scrolls EXCEPT ![t] = 0]

\* mutant of ReturnErr: the error is returned with the guard still held
ReturnErrHolding(t, ev, msg) ==
    /\ tpc' = [tpc EXCEPT ![t] = "done"]
    /\ UNCHANGED <<lock, waiters>>
    /\ events' = [events EXCEPT ![t] = @ \cup {ev}]
    /\ tresult' = [tresult EXCEPT ![t] = Some(Err(msg))]
    /\ collected' = [collected EXCEPT ![t[1]] = FilterMap(@, Err(msg))]
    /\ DropLocals(t)
    /\ UNCHANGED <<items, browser, slept, document>>

\* scrape: a `?` inside the lock scope returns the error and drops the guard
ReturnErr(t, ev, msg) ==
    /\ tpc' = Handoff(t[1], t, "done")
    /\ Unlock(t[1])
    /\ events' = [events EXCEPT ![t] = @ \cup {ev}]
    /\ tresult' = [tresult EXCEPT ![t] = Some(Err(msg))]
    /\ collected' = [collected EXCEPT ![t[1]] = FilterMap(@, Err(msg))]
    /\ DropLocals(t)
    /\ UNCHANGED <<items, browser, slept, document>>

\* scrape: client.goto(url).await
Goto(t) ==
    /\ tpc[t] = "goto"
    /\ \E reached \in BOOLEAN :
        IF reached
        THEN /\ browser' = [browser EXCEPT ![t[1]] = Some(Url(t))]
             /\ tpc' = [tpc EXCEPT ![t] = "wait"]
             /\ UNCHANGED <<collected, items, lock, waiters,
                            slept, events, document, tresult, pollerVars>>
        ELSE ReturnErr(t, "goto", "Failed to go to url")
    /\ UNCHANGED <<mainVars, nodeVars, confVars, crawlerVars, processVars>>

\* scrape: client.wait().at_most(5 s).for_element(..).await
WaitForElement(t) ==
    /\ tpc[t] = "wait"
    /\ \E found \in BOOLEAN :
        IF found
        THEN /\ tpc' = [tpc EXCEPT ![t] =
                           IF kind # Multipage THEN "scroll_to_end" ELSE "source"]
             /\ UNCHANGED <<spiderVars, slept, events, document, tresult, pollerVars>>
        ELSE ReturnErr(t, "wait", "Failed to wait for element")
    /\ UNCHANGED <<mainVars, nodeVars, confVars, crawlerVars, processVars>>

\* ------------------------------------------------------------------ poller
\* mutant of NextCount: a repeated height is not counted
NextCountNever(n, h, new_height) == n

\* scroll_to_end: if new_height == height { i += 1 }
NextCount(n, h, new_height) == IF new_height = h THEN n + 1 ELSE n

\* mutant of Converged: the loop ends one repeat late
ConvergedLate(n, checks) == n > checks

\* scroll_to_end: if i >= self.scroll_checks { break }
Converged(n, checks) == n >= checks

\* mutant of ScrollToEndErr: the error of scroll_to_end is returned with `?`
ScrollToEndErrReturned(t, ev) == ReturnErr(t, ev, "Failed to scroll to end")

\* scrape: if let Err(e) = self.scroll_to_end(&client).await { tracing::error!(..) }
ScrollToEndErr(t, ev) ==
    /\ tpc' = [tpc EXCEPT ![t] = "source"]
    /\ events' = [events EXCEPT ![t] = @ \cup {ev}]
    /\ UNCHANGED <<spiderVars, slept, document, tresult, pollerVars>>

\* mutant of ScrollToEnd: the guard is dropped before the page is scrolled
ScrollToEndUnlocked(t) ==
    /\ tpc[t] = "scroll_to_end"
    /\ \/ \E h \in Heights :
            /\ height' = [height EXCEPT ![t] = h]
            /\ i' = [i EXCEPT ![t] = 0]
            /\ readings' = [readings EXCEPT ![t] = <<h>>]
            /\ tpc' = Handoff(t[1], t, "scroll_down")
            /\ Unlock(t[1])
            /\ UNCHANGED <<scrolls, collected, items, browser, slept, events, document, tresult>>
       \/ ScrollToEndErr(t, "scroll_to_end")
    /\ UNCHANGED <<mainVars, nodeVars, confVars, crawlerVars, processVars>>

\* mutant of ScrollToEnd: the count is tested before the first scroll command
ScrollToEndWhile(t) ==
    /\ tpc[t] = "scroll_to_end"
    /\ \/ \E h \in Heights :
            /\ height' = [height EXCEPT ![t] = h]
            /\ i' = [i EXCEPT ![t] = 0]
            /\ readings' = [readings EXCEPT ![t] = <<h>>]
            /\ tpc' = [tpc EXCEPT ![t] = IF Converged(0, scroll_checks) THEN "source"
                                         ELSE "scroll_down"]
            /\ UNCHANGED <<scrolls, spiderVars, slept, events, document, tresult>>
       \/ ScrollToEndErr(t, "scroll_to_end")
    /\ UNCHANGED <<mainVars, nodeVars, confVars, crawlerVars, processVars>>

\* scroll_to_end: let mut height = self.get_height(client).await?; let mut i = 0;
ScrollToEnd(t) ==
    /\ tpc[t] = "scroll_to_end"
    /\ \/ \E h \in Heights :
            /\ height' = [height EXCEPT ![t] = h]
            /\ i' = [i EXCEPT ![t] = 0]
            /\ readings' = [readings EXCEPT ![t] = <<h>>]
            /\ tpc' = [tpc EXCEPT ![t] = "scroll_down"]
            /\ UNCHANGED <<scrolls, spiderVars, slept, events, document, tresult>>
       \/ ScrollToEndErr(t, "scroll_to_end")
    /\ UNCHANGED <<mainVars, nodeVars, confVars, crawlerVars, processVars>>

\* scroll_to_end: self.scroll_down(client).await?
ScrollDown(t) ==
    /\ tpc[t] = "scroll_down"
    /\ \E sent \in BOOLEAN :
        IF sent
        THEN /\ scrolls' = [scrolls EXCEPT ![t] = @ + 1]
             /\ tpc' = [tpc EXCEPT ![t] = "new_height"]
             /\ UNCHANGED <<height, i, readings, spiderVars, slept, events, document, tresult>>
        ELSE ScrollToEndErr(t, "scroll_to_end")
    /\ UNCHANGED <<mainVars, nodeVars, confVars, crawlerVars, processVars>>

\* the number of readings that differ from the reading before them
Changes(hs) == Cardinality({k \in 1..(Len(hs) - 1) : hs[k + 1] # hs[k]})

\* document.body.scrollHeight after the readings hs: a page that is still
\* keeps its height
CanBe(hs, new_height) ==
    IF growth = None THEN TRUE
    ELSE new_height = hs[Len(hs)] \/ Changes(hs) < growth[1]

\* scroll_to_end: sleep(self.scroll_delay), get_height, the count and the test
NewHeight(t) ==
    /\ tpc[t] = "new_height"
    /\ Len(readings[t]) < MaxReads
    /\ \/ \E new_height \in Heights :
            LET n == NextCount(i[t], height[t], new_height)
            IN  /\ CanBe(readings[t], new_height)
                /\ readings' = [readings EXCEPT ![t] = Append(@, new_height)]
                /\ i' = [i EXCEPT ![t] = n]
                /\ IF Converged(n, scroll_checks)
                   THEN tpc' = [tpc EXCEPT ![t] = "source"] /\ height' = height
                   ELSE /\ tpc' = [tpc EXCEPT ![t] = "scroll_down"]
                        /\ height' = [height EXCEPT ![t] = new_height]
                /\ UNCHANGED <<scrolls, spiderVars, slept, events, document, tresult>>
       \/ ScrollToEndErr(t, "scroll_to_end")
    /\ UNCHANGED <<mainVars, nodeVars, confVars, crawlerVars, processVars>>

\* ------------------------------------------------------------------ scrape
\* mutant of Source: the guard outlives the lock scope and is held while parsing
SourceHolding(t) ==
    /\ tpc[t] = "source"
    /\ \/ \E d \in site :
            /\ document' = [document EXCEPT
                               ![t] = Some([url |-> browser[t[1]][1], elements |-> d])]
            /\ tpc' = [tpc EXCEPT ![t] = "parse"]
            /\ DropLocals(t)
            /\ UNCHANGED <<lock, waiters, collected, items, browser, slept, events, tresult>>
       \/ ReturnErr(t, "source", "Failed to obtain html content")
    /\ UNCHANGED <<mainVars, nodeVars, confVars, crawlerVars, processVars>>

\* scrape: client.source().await, the end of the lock scope
Source(t) ==
    /\ tpc[t] = "source"
    /\ \/ \E d \in site :
            /\ document' = [document EXCEPT
                               ![t] = Some([url |-> browser[t[1]][1], elements |-> d])]
            /\ tpc' = Handoff(t[1], t, "parse")
            /\ Unlock(t[1])
            /\ DropLocals(t)
            /\ UNCHANGED <<collected, items, browser, slept, events, tresult>>
       \/ ReturnErr(t, "source", "Failed to obtain html content")
    /\ UNCHANGED <<mainVars, nodeVars, confVars, crawlerVars, processVars>>

\* mutant of Parse: an element that cannot be extracted fails the scrape
ParseStrict(t) ==
    /\ tpc[t] = "parse"
    /\ LET found == ExtractAll(kind, Url(t), document[t][1].elements)
       IN  IF \E k \in DOMAIN found : ~found[k].ok
           THEN /\ tresult' = [tresult EXCEPT ![t] = Some(Err("Error reading item"))]
                /\ events' = [events EXCEPT ![t] = @ \cup {"extract"}]
                /\ collected' = collected
           ELSE /\ \E v \in Vecs(HashSetOf(FilterOk(found))) :
                     /\ tresult' = [tresult EXCEPT ![t] = Some(OkItems(v))]
                     /\ collected' = [collected EXCEPT ![t[1]] = FilterMap(@, OkItems(v))]
                /\ events' = events
    /\ tpc' = [tpc EXCEPT ![t] = "done"]
    /\ document' = [document EXCEPT ![t] = None]
    /\ UNCHANGED <<items, lock, waiters, browser, slept,
                   mainVars, nodeVars, confVars, crawlerVars, processVars, pollerVars>>

\* scrape: Html::parse_document, select, filter_map(try_from), HashSet, Vec, Ok
Parse(t) ==
    /\ tpc[t] = "parse"
    /\ LET found == ExtractAll(kind, Url(t), document[t][1].elements)
       IN  /\ \E v \in Vecs(HashSetOf(FilterOk(found))) :
                /\ tresult' = [tresult EXCEPT ![t] = Some(OkItems(v))]
                /\ collected' = [collected EXCEPT ![t[1]] = FilterMap(@, OkItems(v))]
           /\ events' = [events EXCEPT ![t] =
                            IF \E k \in DOMAIN found : ~found[k].ok
                            THEN @ \cup {"extract"} ELSE @]
    /\ tpc' = [tpc EXCEPT ![t] = "done"]
    /\ document' = [document EXCEPT ![t] = None]
    /\ UNCHANGED <<items, lock, waiters, browser, slept,
                   mainVars, nodeVars, confVars, crawlerVars, processVars, pollerVars>>

\* mutant of FinishScrapeAll: the stream ends with the first subroute that completes
FinishScrapeAllEarly(s) ==
    /\ ppc[s] = "scrape_all"
    /\ \E t \in TasksOf(s) : tpc[t] = "done"
    /\ \E v \in Vecs(HashSetOf(Flatten(collected[s]))) :
            items' = [items EXCEPT ![s] = Some(v)]
    /\ ppc' = [ppc EXCEPT ![s] = "write"]
    /\ UNCHANGED <<files, presult, collected, lock, waiters, browser,
                   mainVars, nodeVars, confVars, crawlerVars, pollerVars, taskVars>>

\* scrape_all: the stream is exhausted: flatten, collect::<HashSet<_>>(), Vec
FinishScrapeAll(s) ==
    /\ ppc[s] = "scrape_all"
    /\ \A t \in TasksOf(s) : tpc[t] = "done"
    /\ \E v \in Vecs(HashSetOf(Flatten(collected[s]))) :
            items' = [items EXCEPT ![s] = Some(v)]
    /\ ppc' = [ppc EXCEPT ![s] = "write"]
    /\ UNCHANGED <<files, presult, collected, lock, waiters, browser,
                   mainVars, nodeVars, confVars, crawlerVars, pollerVars, taskVars>>

\* ------------------------------------------------------------------ system
Next ==
    \/ \E s \in SpiderIds : Connect(s)
    \/ CheckOutPath
    \/ \E s \in SpiderIds : StartSpider(s)
    \/ \E s \in SpiderIds : CreateFile(s)
    \/ \E t \in Tasks : SpawnSubroute(t)
    \/ \E t \in Tasks : Pace(t)
    \/ \E t \in Tasks : Lock(t)
    \/ \E t \in Tasks : Goto(t)
    \/ \E t \in Tasks : WaitForElement(t)
    \/ \E t \in Tasks : ScrollToEnd(t)
    \/ \E t \in Tasks : ScrollDown(t)
    \/ \E t \in Tasks : NewHeight(t)
    \/ \E t \in Tasks : Source(t)
    \/ \E t \in Tasks : Parse(t)
    \/ \E s \in SpiderIds : FinishScrapeAll(s)
    \/ \E s \in SpiderIds : WriteItems(s)
    \/ FinishProcessAll

Spec == Init /\ [][Next]_vars

SpecScrape == InitScrape /\ [][Next]_vars

SpecCrawler == InitCrawler /\ [][Next]_vars

\* one spider with one subroute whose page changes its height a bounded
\* number of times and is still afterwards
InitLive ==
    /\ InitWith({1}, {1}, {InfiniteScrolling, Multipage}, 0..MaxChecks)
    /\ site = PlainDocuments(kind)
    /\ growth \in {Some(n) : n \in 0..(MaxReads - 1 - Max({scroll_checks, 1}))}
    /\ kind = Multipage => growth = Some(0)
    /\ node = NoNode

\* every future that can make a step is polled again: a session command
\* returns, a sleep ends, the Mutex hands the lock on
SpecLive == InitLive /\ [][Next]_vars /\ WF_vars(Next)

\* one spider with up to two subroutes, scroll_checks 0 or 1, on pages that
\* are still
InitLiveAll ==
    /\ InitWith({1}, {0, 1, 2}, {InfiniteScrolling, Multipage}, {0, 1})
    /\ site = PlainDocuments(kind)
    /\ growth = Some(0)
    /\ node = NoNode

SpecLiveAll == InitLiveAll /\ [][Next]_vars /\ WF_vars(Next)

\* one MetroSpider with up to two subroutes, scroll_checks 0 or 1
InitMetro ==
    /\ InitWith({1}, {0, 1, 2}, {Metro}, {0, 1})
    /\ site = Documents(kind)
    /\ growth = None
    /\ node = NoNode

SpecMetro == InitMetro /\ [][Next]_vars

\* two InfiniteScrollingSpiders of two subroutes each, on a site that serves
\* one markup, with an output directory: both pools can fill
InitPools ==
    /\ InitWith({2}, {2}, {InfiniteScrolling}, {0})
    /\ \A s \in 1..spiders : subroutes[s] = 2
    /\ site = { <<ElemA1, ElemA2, ElemBadPrice>> }
    /\ growth = None
    /\ out_path = "dir"
    /\ node = NoNode

SpecPools == InitPools /\ [][Next]_vars

\* --------------------------------------------------------------- one node
\* a spider of either type and one node of its markup; nothing is crawled
InitExtract ==
    /\ InitWith({0}, {0}, {InfiniteScrolling, Multipage}, {0})
    /\ site = Documents(kind)
    /\ growth = None
    /\ out_path = "dir"
    /\ node \in Nodes(kind)

\* InfiniteScrollingItem::try_from / MultipageItem::try_from on the attribute
\* map of the node
TryFrom ==
    /\ raw = None
    /\ raw' = Some(IF kind = InfiniteScrolling
                   THEN InfiniteScrollingItem_try_from(RawMap(kind, node))
                   ELSE MultipageItem_try_from(RawMap(kind, node)))
    /\ UNCHANGED <<node, scraped, page, mainVars, confVars, crawlerVars, processVars,
                   spiderVars, pollerVars, taskVars>>

\* scrape, from Html::parse_document on, of a page of the node and its
\* sibling: the closure of filter_map on the node, and the HashSet collected
ScrapePage ==
    /\ scraped = None
    /\ scraped' = Some(Extract(kind, NodeUrl, NodeElement(kind, node)))
    /\ page' = Some(HashSetOf(FilterOk(ExtractAll(kind, NodeUrl,
                        <<NodeElement(kind, node), Sibling(kind)>>))))
    /\ UNCHANGED <<node, raw, mainVars, confVars, crawlerVars, processVars,
                   spiderVars, pollerVars, taskVars>>

NextExtract ==
    \/ TryFrom
    \/ ScrapePage

SpecExtract == InitExtract /\ [][NextExtract]_vars

\* ------------------------------------------------------------------ claims
Keys(v) == {Key(v[k]) : k \in DOMAIN v}

\* the subroute futures of s whose scrape returned Ok
Succeeded(s) == {t \in TasksOf(s) : IsSome(tresult[t]) /\ tresult[t][1].ok}

\* the subroute futures of s whose scrape returned Err
Failed(s) == {t \in TasksOf(s) : IsSome(tresult[t]) /\ ~tresult[t][1].ok}

\* C1: the list scrape_all returns holds no two records with the same
\* identity key, whatever the subroutes returned.
C1_NoDuplicateKeys ==
    \A s \in SpiderIds :
        IsSome(items[s]) =>
            \A j, k \in DOMAIN items[s][1] :
                j # k => Key(items[s][1][j]) # Key(items[s][1][k])

\* C1 witness: scrape_all has returned after one subroute's page held two
\* elements with one id and a second subroute returned that id again.
C1_Witness ==
    \E s \in SpiderIds :
        /\ IsSome(items[s])
        /\ Len(items[s][1]) = 2
        /\ Len(Flatten(collected[s])) > Len(items[s][1])
        /\ \E t \in Succeeded(s) :
            Len(tresult[t][1].items) = 1 /\ "extract" \in events[t]

\* C2: when scrape_all returns, every subroute has been scraped, and the
\* identity keys returned are exactly those of the subroutes that succeeded.
C2_FailedSubrouteIsolated ==
    \A s \in SpiderIds :
        IsSome(items[s]) =>
            /\ \A t \in TasksOf(s) : IsSome(tresult[t])
            /\ Keys(items[s][1]) = UNION {Keys(tresult[t][1].items) : t \in Succeeded(s)}
            /\ \A t \in Succeeded(s) :
                Succeeded(s) = {t} => Len(items[s][1]) = Len(tresult[t][1].items)

\* C2 witness: subroute 0 failed, subroute 1 returned two records, and those
\* two are what scrape_all returned.
C2_Witness ==
    \E s \in SpiderIds :
        /\ IsSome(items[s])
        /\ Failed(s) = {<<s, 0>>}
        /\ Succeeded(s) = {<<s, 1>>}
        /\ Len(tresult[<<s, 1>>][1].items) = 2
        /\ Len(items[s][1]) = 2

\* C3: at most spiders_buffer_size subroute tasks of a spider are in flight.
C3_BufferBound ==
    \A s \in SpiderIds : Cardinality(InFlight(s)) <= spiders_buffer_size

\* C3 witness: more subroutes than slots, every slot taken, one subroute
\* still waiting for a slot.
C3_Witness ==
    \E s \in SpiderIds :
        /\ spiders_buffer_size < subroutes[s]
        /\ Cardinality(InFlight(s)) = spiders_buffer_size
        /\ \E t \in TasksOf(s) : tpc[t] = "unstarted"

\* the subroute futures of s between their navigate call and their markup read
OnSession(s) ==
    {t \in TasksOf(s) :
        tpc[t] \in {"goto", "wait", "scroll_to_end", "scroll_down", "new_height", "source"}}

\* C4: at most one subroute of a spider is between navigate and markup read,
\* and the markup a subroute parses is that of the URL it navigated to.
C4_SessionExclusive ==
    /\ \A s \in SpiderIds : Cardinality(OnSession(s)) <= 1
    /\ \A t \in Tasks : tpc[t] = "parse" => document[t][1].url = Url(t)

\* C4 witness: with two slots, one subroute parses the markup of its own URL
\* while a sibling has already navigated the session elsewhere.
C4_Witness ==
    \E t \in Tasks :
        /\ spiders_buffer_size > 1
        /\ tpc[t] = "parse"
        /\ document[t][1].url = Url(t)
        /\ browser[t[1]] # Some(Url(t))
        /\ OnSession(t[1]) # {}

\* scroll_to_end of task t has left its loop through the break
Stopped(t) ==
    kind = InfiniteScrolling /\ tpc[t] = "source" /\ "scroll_to_end" \notin events[t]

\* the number of readings equal to the reading before them
RECURSIVE Repeats(_)
Repeats(hs) ==
    IF Len(hs) < 2 THEN 0
    ELSE Repeats(SubSeq(hs, 1, Len(hs) - 1))
         + (IF hs[Len(hs)] = hs[Len(hs) - 1] THEN 1 ELSE 0)

\* C5: the poller stops only when the last scroll_checks readings were each
\* equal to the reading before them.
C5_StopsOnConsecutive ==
    \A t \in Tasks :
        Stopped(t) =>
            /\ Len(readings[t]) > scroll_checks
            /\ \A k \in (Len(readings[t]) - scroll_checks + 1)..Len(readings[t]) :
                readings[t][k] = readings[t][k - 1]

\* C6: one scroll command precedes each reading after the first, after a
\* reading the loop goes on only while i is below scroll_checks and it ends
\* at the reading that brings i to scroll_checks, with no further scroll; readings 100, 150, 150, 150 with scroll_checks = 2 end
\* the loop after 3 scroll commands and no earlier.
C6_OneScrollPerReading ==
    \A t \in Tasks :
        /\ tpc[t] = "scroll_down" =>
            /\ scrolls[t] = Len(readings[t]) - 1
            /\ Len(readings[t]) > 1 => i[t] < scroll_checks
        /\ tpc[t] = "new_height" => scrolls[t] = Len(readings[t])
        /\ Stopped(t) =>
            /\ scrolls[t] = Len(readings[t]) - 1
            /\ scrolls[t] >= 1
            /\ i[t] = Repeats(readings[t])
            /\ i[t] >= scroll_checks
            /\ Repeats(SubSeq(readings[t], 1, Len(readings[t]) - 1)) < scroll_checks
                \/ Len(readings[t]) = 2
        /\ (scroll_checks = 2 /\ readings[t] = <<100, 150, 150, 150>>) =>
            Stopped(t) /\ scrolls[t] = 3
        /\ (scroll_checks = 2 /\ readings[t] \in {<<100>>, <<100, 150>>, <<100, 150, 150>>}) =>
            ~Stopped(t)

\* C6 witness: the poller has stopped on readings 100, 150, 150, 150 with
\* scroll_checks = 2.
C6_Witness ==
    \E t \in Tasks :
        Stopped(t) /\ scroll_checks = 2 /\ readings[t] = <<100, 150, 150, 150>>

\* C7 as claimed: once a poller command has failed, the scrape of an
\* InfiniteScrollingSpider returns Ok.
C7_PollerFailureNeverFails ==
    \A t \in Tasks :
        (kind = InfiniteScrolling /\ tpc[t] = "done" /\ "scroll_to_end" \in events[t]) =>
            tresult[t][1].ok

\* C7 amended: once a poller command has failed, the scrape goes on to the
\* markup read, and it returns Ok unless that read fails.
C7_PollerFailureReadsMarkup ==
    \A t \in Tasks :
        (kind = InfiniteScrolling /\ "scroll_to_end" \in events[t]) =>
            /\ tpc[t] \in {"source", "parse", "done"}
            /\ tpc[t] = "parse" => IsSome(document[t])
            /\ tpc[t] = "done" => (tresult[t][1].ok <=> "source" \notin events[t])

\* C7 witness: a poller command failed and the scrape has returned Ok with
\* a record.
C7_Witness ==
    \E t \in Tasks :
        /\ kind = InfiniteScrolling
        /\ "scroll_to_end" \in events[t]
        /\ tpc[t] = "done"
        /\ tresult[t][1].ok
        /\ tresult[t][1].items # <<>>

\* C8: a scrape returns Err exactly when goto, the element wait or the
\* markup read failed; poller and extraction failures never do it.
C8_ErrorCauses ==
    \A t \in Tasks :
        tpc[t] = "done" =>
            (~tresult[t][1].ok <=> events[t] \cap {"goto", "wait", "source"} # {})

\* C8 witness: a scrape has returned Ok although a poller command and the
\* extraction of an element failed.
C8_Witness ==
    \E t \in Tasks :
        /\ tpc[t] = "done"
        /\ tresult[t][1].ok
        /\ events[t] = {"scroll_to_end", "extract"}

\* what spider s contributes to the total
Contribution(s) ==
    IF IsSome(presult[s]) /\ presult[s][1].ok THEN presult[s][1].n ELSE 0

RECURSIVE Total(_)
Total(n) == IF n = 0 THEN 0 ELSE Total(n - 1) + Contribution(n)

\* C9: once the out_path checks have passed, process_all returns Ok of the
\* sum of the counts of the spiders that succeeded; every spider has been
\* processed, a failed one counts 0, and a succeeded one counts its records.
C9_TotalIsSumOfSucceeded ==
    (cpc = "done" /\ out_path = "dir") =>
        /\ result = Some(Ok(Total(spiders)))
        /\ \A s \in 1..spiders :
            /\ IsSome(presult[s])
            /\ presult[s][1].ok => presult[s][1].n = Len(items[s][1])

\* C9 witness: of two spiders the first failed and the second returned
\* records, and process_all has returned.
C9_Witness ==
    /\ cpc = "done"
    /\ spiders = 2
    /\ IsSome(presult[1]) /\ ~presult[1][1].ok
    /\ Contribution(2) > 0
    /\ result = Some(Ok(Contribution(2)))

\* C10: with out_path an existing non-directory, process_all returns
\* OutPathNoDir and no spider is started, no file created, no subroute scraped.
C10_OutPathNoDir ==
    out_path = "file" =>
        /\ cpc = "done" => result = Some(Err("OutPathNoDir"))
        /\ files = {}
        /\ \A s \in SpiderIds : ppc[s] = "queued"
        /\ \A t \in Tasks : tpc[t] = "unstarted" /\ tresult[t] = None
        /\ browser = [s \in SpiderIds |-> None]

\* C10 witness: process_all has returned OutPathNoDir for a crawler of two
\* spiders with a subroute each.
C10_Witness ==
    /\ out_path = "file"
    /\ cpc = "done"
    /\ result = Some(Err("OutPathNoDir"))
    /\ spiders = 2
    /\ \A s \in 1..spiders : subroutes[s] = 1

\* C11 as stated: when out_path does not exist and cannot be created, the
\* crawl is not aborted: process_all still returns a total, not an error.
C11_CreateDirFailureNotFatal ==
    (cpc = "done" /\ out_path = "missing") => (IsSome(result) /\ result[1].ok)

\* C11 amended: when out_path does not exist and cannot be created,
\* process_all returns the error of create_dir; no spider is started, no
\* file is created, no subroute is scraped and nothing is counted.
C11_CreateDirFailureAborts ==
    (cpc # "check" /\ out_path = "missing") =>
        /\ cpc = "done"
        /\ result = Some(Err("Failed to create dir for out_path"))
        /\ counts = <<>>
        /\ files = {}
        /\ \A s \in SpiderIds : ppc[s] = "queued"
        /\ \A t \in Tasks : tpc[t] = "unstarted"

\* C11 witness: the directory of a crawler of two spiders could not be
\* created and process_all has returned.
C11_Witness ==
    /\ out_path = "missing"
    /\ cpc = "done"
    /\ spiders = 2
    /\ \A s \in 1..spiders : subroutes[s] = 1
    /\ IsSome(result) /\ ~result[1].ok

\* C12 as stated: a spider whose browser session cannot be established is the
\* only one lost: main does not return its error, so that the remaining
\* spiders are still built and run.
C12_SessionFailureIsLocal ==
    \A s \in 1..spiders : session[s] = "failed" => mpc # "failed"

\* C13: in scrape_all the subroute at index 0 reaches its call of scrape
\* without having served the pacing delay, and every subroute at an index
\* above 0 has served it, after being taken from the stream, by the time its
\* call of scrape begins.
C13_PacedExceptFirst ==
    \A t \in Tasks :
        /\ tpc[t] \in {"unstarted", "start"} => ~slept[t]
        /\ tpc[t] \notin {"unstarted", "start"} => (slept[t] <=> t[2] > 0)

\* C13 witness: the second subroute has served the delay and is about to
\* call scrape, while the first is in its scrape and has served none.
C13_Witness ==
    /\ subroutes[1] = 2
    /\ tpc[<<1, 1>>] = "scrape" /\ slept[<<1, 1>>]
    /\ tpc[<<1, 0>>] = "wait" /\ ~slept[<<1, 0>>]

\* the records of the page when the node yields none: those of its sibling
SiblingItems == HashSetOf(FilterOk(ExtractAll(kind, NodeUrl, <<Sibling(kind)>>)))

\* C14 as stated: for every spider, a node that carries the identity key and
\* no other product field yields no record, both when try_from is applied to
\* its attribute map and when the scrape of the spider processes the node.
C14_IdOnlyYieldsNoRecord ==
    (IsSome(node.id) /\ node.name = None /\ node.price = None) =>
        /\ IsSome(raw) => ~raw[1].ok
        /\ IsSome(scraped) => (~scraped[1].ok /\ page[1] = SiblingItems)

\* C15: for every spider, a node without the identity key yields the failure
\* "Failed to obtain item id" and no record, whatever else it carries (an
\* unparseable price included); the other node of the page is still extracted.
C15_MissingIdentity ==
    node.id = None =>
        /\ IsSome(raw) => raw[1] = Err("Failed to obtain item id")
        /\ IsSome(scraped) =>
               /\ scraped[1] = Err("Failed to obtain item id")
               /\ page[1] = SiblingItems
               /\ page[1] # {}

\* C15 witness: a node with a name and an unparseable price but no identity
\* key has gone through try_from and through the scrape of its page.
C15_Witness ==
    /\ kind = InfiniteScrolling
    /\ node.id = None /\ IsSome(node.name)
    /\ node.price = Some(<<"S", "/", "1", "S">>)
    /\ IsSome(raw) /\ IsSome(scraped)

\* C16: a node whose price text leaves a non-numeric remainder once the
\* markers and commas are stripped and the text trimmed yields no record,
\* even with its identity key and name present; the failure touches that node
\* only: the other node of the page is extracted and the scrape returns.
C16_BadPriceDropsNode ==
    (IsSome(node.id) /\ IsSome(node.price) /\ ~parse_price(node.price[1]).ok) =>
        /\ IsSome(raw) => raw[1] = Err("Failed to parse price")
        /\ IsSome(scraped) =>
               /\ scraped[1] = Err("Failed to parse price")
               /\ page[1] = SiblingItems
               /\ page[1] # {}

\* C16 witness: a node with identity key, name and the price text "1/1" has
\* gone through try_from and through the scrape of its page.
C16_Witness ==
    /\ kind = Multipage
    /\ IsSome(node.id) /\ IsSome(node.name)
    /\ node.price = Some(<<"1", "/", "1">>) /\ node.price_at = "text"
    /\ IsSome(raw) /\ IsSome(scraped)

\* the currency marker a price text begins with, the longer one first
MarkerOf(x) ==
    IF Len(x) >= 3 /\ SubSeq(x, 1, 3) = SolDot THEN SolDot
    ELSE IF Len(x) >= 2 /\ SubSeq(x, 1, 2) = Sol THEN Sol
    ELSE <<>>

\* what follows the marker and the whitespace after it
AfterMarker(x) == trim_start(SubSeq(x, Len(MarkerOf(x)) + 1, Len(x)))

\* a marker, optional whitespace and a number of digits with at most one dot
IsMarkedNumber(x) ==
    /\ MarkerOf(x) # <<>>
    /\ \A k \in 1..Len(AfterMarker(x)) : AfterMarker(x)[k] \in Digits \cup {"."}
    /\ parse_f64(AfterMarker(x)).ok

\* C17 as stated: the extractor of every spider applies the same price rule:
\* a price text made of either marker ("S/." or "S/"), optional whitespace
\* and a valid number is accepted and yields that number, for an
\* InfiniteScrollingItem as well as for a MultipageItem.
C17_SamePriceRule ==
    (IsSome(node.id) /\ IsSome(node.price) /\ IsMarkedNumber(node.price[1])) =>
        /\ IsSome(raw) =>
               /\ raw[1].ok
               /\ raw[1].item.price = Some(parse_f64(AfterMarker(node.price[1])).val)
        /\ IsSome(scraped) =>
               /\ scraped[1].ok
               /\ scraped[1].item.price = Some(parse_f64(AfterMarker(node.price[1])).val)

\* the subroute futures in flight, over all spiders
AllInFlight == UNION {InFlight(s) : s \in 1..spiders}

\* C18: at most crawlers_buffer_size spiders are being processed at any
\* moment, whatever spiders_buffer_size is, and at most
\* crawlers_buffer_size * spiders_buffer_size subroute tasks are in flight
\* over all spiders.
C18_TwoPools ==
    /\ Cardinality(Processing) <= crawlers_buffer_size
    /\ Cardinality(AllInFlight) <= crawlers_buffer_size * spiders_buffer_size
    /\ \A s \in 1..spiders : InFlight(s) # {} => s \in Processing

\* C18 witness: with one slot for spiders and two for subroutes, one spider
\* is processed with both its subroutes in flight while the other spider,
\* which has subroutes too, waits for the slot.
C18_Witness ==
    /\ crawlers_buffer_size = 1 /\ spiders_buffer_size = 2
    /\ Cardinality(Processing) = 1
    /\ Cardinality(AllInFlight) = 2
    /\ \E s \in 1..spiders : ppc[s] = "queued" /\ subroutes[s] = 2

\* C19: a subroute that has read the markup and is parsing it no longer holds
\* the session lock, nor waits for it: the lock was released between the
\* markup read and the parsing, so another subroute can navigate meanwhile.
C19_ReleasedBeforeParse ==
    \A t \in Tasks :
        tpc[t] = "parse" =>
            /\ IsSome(document[t])
            /\ lock[t[1]] # Some(t)
            /\ \A k \in 1..Len(waiters[t[1]]) : waiters[t[1]][k] # t

\* C19 witness: subroute 0 is parsing its markup while subroute 1 holds the
\* lock and navigates.
C19_Witness ==
    /\ tpc[<<1, 0>>] = "parse"
    /\ tpc[<<1, 1>>] = "goto"
    /\ lock[1] = Some(<<1, 1>>)

\* the orders in which the Vecs of seq can have been collected
Orders(seq) ==
    {[k \in 1..Len(seq) |-> seq[p[k]]] :
        p \in {q \in [1..Len(seq) -> 1..Len(seq)] :
                  \A a, b \in 1..Len(seq) : q[a] = q[b] => a = b}}

\* C20: the identity keys scrape_all returns are those it would return under
\* every other completion order of its subroute tasks: whatever the order in
\* which the results of the subroutes are collected, flattening and
\* deduplication give the same set of keys.
C20_KeysOrderIndependent ==
    \A s \in SpiderIds :
        IsSome(items[s]) =>
            \A order \in Orders(collected[s]) :
                {Key(x) : x \in HashSetOf(Flatten(order))} = Keys(items[s][1])

\* C20 witness: subroute 1 completed before subroute 0, the two returned
\* different keys and one key in common, and scrape_all has returned.
C20_Witness ==
    /\ IsSome(items[1])
    /\ Len(collected[1]) = 2
    /\ collected[1][1] = tresult[<<1, 1>>][1].items
    /\ collected[1][2] = tresult[<<1, 0>>][1].items
    /\ Keys(collected[1][1]) \cap Keys(collected[1][2]) # {}
    /\ Keys(collected[1][1]) # Keys(collected[1][2])

\* the positions of a subroute inside scroll_to_end
PollerPcs == {"scroll_to_end", "scroll_down", "new_height"}

\* C21: on a page whose height changes a bounded number of times and then
\* stays the same, the convergence poller a subroute has entered comes to an
\* end (through its break, or through a session command that fails).
C21_PollerTerminates ==
    \A t \in Tasks : (tpc[t] = "scroll_to_end") ~> (tpc[t] \notin PollerPcs)

\* C21 witness: with scroll_checks = 2 the page grew once, from 100 to 150,
\* then stayed, and the poller has left its loop with no command failed.
C21_Witness ==
    /\ kind = InfiniteScrolling
    /\ scroll_checks = 2
    /\ growth = Some(1)
    /\ tpc[<<1, 0>>] = "source"
    /\ readings[<<1, 0>>] = <<100, 150, 150, 150>>
    /\ "scroll_to_end" \notin events[<<1, 0>>]

\* C23: with spiders_buffer_size >= 1 and scrapes that terminate, a scrape_all
\* that was called returns, and by then every configured subroute has the one
\* result of its one call of scrape, failed or not; a subroute whose scrape
\* was called is never called again, and a result is never replaced.
C23_ScrapeAllTerminates ==
    /\ \A s \in SpiderIds :
           (ppc[s] = "scrape_all") ~>
               (/\ IsSome(items[s])
                /\ \A t \in TasksOf(s) : tpc[t] = "done" /\ IsSome(tresult[t]))
    /\ [][\A t \in Tasks :
              /\ tpc[t] \notin {"unstarted", "start"} => tpc'[t] \notin {"unstarted", "start"}
              /\ tpc[t] # "scrape" => tpc'[t] # "scrape" \/ tpc[t] = "start"
              /\ IsSome(tresult[t]) => tresult'[t] = tresult[t]]_vars

\* C23 witness: scrape_all has returned for two subroutes, the first of which
\* failed and the second of which succeeded.
C23_Witness ==
    /\ IsSome(items[1])
    /\ subroutes[1] = 2
    /\ IsSome(tresult[<<1, 0>>]) /\ ~tresult[<<1, 0>>][1].ok
    /\ IsSome(tresult[<<1, 1>>]) /\ tresult[<<1, 1>>][1].ok

\* C22 as stated: with spiders_buffer_size > 1, two subroutes of a MetroSpider
\* are never both between their navigate call and their markup read, and the
\* client shows the page of the subroute that scrolls it or reads its markup.
C22_MetroNoInterleave ==
    (kind = Metro /\ spiders_buffer_size > 1) =>
        \A t \in Tasks :
            tpc[t] \in {"wait", "scroll_to_end", "scroll_down", "new_height", "source"} =>
                /\ browser[t[1]] = Some(Url(t))
                /\ OnSession(t[1]) = {t}

\* the subroute futures queued on the Mutex of spider s
Waiting(s) == {waiters[s][k] : k \in 1..Len(waiters[s])}

\* C24: the session lock is released on every exit path of scrape: a
\* subroute that has returned, with an error or not, neither holds the lock
\* nor waits for it; the lock is only ever held by a subroute inside its lock
\* scope, and no subroute waits for a lock that is free.
C24_LockReleasedOnExit ==
    \A s \in SpiderIds :
        /\ \A t \in TasksOf(s) :
               tpc[t] = "done" => (lock[s] # Some(t) /\ t \notin Waiting(s))
        /\ IsSome(lock[s]) => lock[s][1] \in OnSession(s)
        /\ Waiting(s) # {} => IsSome(lock[s])

\* C24 witness: subroute 0 waited for the lock while subroute 1 held it and
\* failed on its navigation; subroute 0 now holds the lock.
C24_Witness ==
    /\ IsSome(tresult[<<1, 1>>])
    /\ events[<<1, 1>>] = {"goto"}
    /\ lock[1] = Some(<<1, 0>>)
    /\ tpc[<<1, 0>>] = "goto"

\* C25: while a subroute of an InfiniteScrollingSpider is in its convergence
\* loop it holds the session lock, no other subroute of the spider is between
\* navigation and markup read, and scrape_all has not returned: as long as the
\* loop does not end, the others do not get the session.
C25_LockHeldWhilePolling ==
    \A t \in Tasks :
        (kind = InfiniteScrolling /\ tpc[t] \in PollerPcs) =>
            /\ lock[t[1]] = Some(t)
            /\ \A r \in TasksOf(t[1]) \ {t} : r \notin OnSession(t[1])
            /\ items[t[1]] = None
            /\ ppc[t[1]] = "scrape_all"

\* C25 witness: the page of subroute 0 has changed at every reading, its
\* poller is still in the loop, and subroute 1 waits for the lock.
C25_Witness ==
    /\ kind = InfiniteScrolling
    /\ tpc[<<1, 0>>] = "new_height"
    /\ Len(readings[<<1, 0>>]) = MaxReads
    /\ Changes(readings[<<1, 0>>]) = MaxReads - 1
    /\ tpc[<<1, 1>>] = "lock_wait"

\* C26: a subroute that waits out the pacing delay occupies a slot of the
\* buffer but neither holds the session lock nor waits for it: the lock is
\* requested only after the delay.
C26_NoLockWhilePaced ==
    \A t \in Tasks :
        tpc[t] = "start" =>
            /\ t \in InFlight(t[1])
            /\ lock[t[1]] # Some(t)
            /\ t \notin Waiting(t[1])

\* C26 witness: subroute 1 is in its delay, in the second slot, while
\* subroute 0 holds the lock and waits for its element.
C26_Witness ==
    /\ spiders_buffer_size = 2
    /\ tpc[<<1, 1>>] = "start"
    /\ lock[1] = Some(<<1, 0>>)
    /\ tpc[<<1, 0>>] = "wait"

\* C27: process_one creates the output file before any subroute is scraped;
\* when the file cannot be created scrape_all is never invoked for the spider
\* and the spider adds no count to the total; when the file was created and
\* every subroute failed, the spider ends as a success with 0 records.
C27_FileBeforeScrape ==
    /\ \A s \in SpiderIds :
           /\ (ppc[s] \in {"scrape_all", "write"} \/ \E t \in TasksOf(s) : tpc[t] # "unstarted")
                  => s \in files
           /\ presult[s] = Some(Err("Failed to create file")) =>
                  /\ s \notin files
                  /\ items[s] = None
                  /\ \A t \in TasksOf(s) : tpc[t] = "unstarted" /\ tresult[t] = None
           /\ (ppc[s] = "done" /\ s \in files /\ Succeeded(s) = {}) =>
                  presult[s] = Some(Ok(0))
    /\ Len(counts) = Cardinality({s \in SpiderIds : IsSome(presult[s]) /\ presult[s][1].ok})

\* C27 witness: of two spiders of one subroute each, the file of the first
\* could not be created, the only subroute of the second failed, and
\* process_all returned a total of 0 made of the one count of the second.
C27_Witness ==
    /\ spiders = 2
    /\ subroutes = [s \in SpiderIds |-> 1]
    /\ presult[1] = Some(Err("Failed to create file"))
    /\ 2 \in files
    /\ Failed(2) = {<<2, 0>>}
    /\ presult[2] = Some(Ok(0))
    /\ counts = <<0>>
    /\ result = Some(Ok(0))

\* C28: the poller issues at least one scroll command and takes at least two
\* height readings before it can stop; with scroll_checks = 0 it never issues
\* a second scroll command and stops after exactly one, with two readings,
\* whatever the two heights are.
C28_AtLeastOneScroll ==
    \A t \in Tasks :
        /\ Stopped(t) => (scrolls[t] >= 1 /\ Len(readings[t]) >= 2)
        /\ scroll_checks = 0 =>
            /\ scrolls[t] <= 1
            /\ Len(readings[t]) <= 2
            /\ Stopped(t) => (scrolls[t] = 1 /\ Len(readings[t]) = 2)
            /\ (Len(readings[t]) = 2 /\ "scroll_to_end" \notin events[t]) => Stopped(t)

\* C28 witness: with scroll_checks = 0 the poller has stopped after one
\* scroll command although the second reading differs from the first.
C28_Witness ==
    /\ scroll_checks = 0
    /\ Stopped(<<1, 0>>)
    /\ scrolls[<<1, 0>>] = 1
    /\ readings[<<1, 0>>] = <<100, 150>>

====
